---- MODULE Spec2Model ----
(***************************************************************************)
(* Configuration resolution of source/metrics/engine/config.ts: the loose  *)
(* pre-pass and preset cascade of `config`, the sugar normalizer, the      *)
(* strict validation schemas, and the restricted `webrequest` schema.      *)
(*                                                                         *)
(* JavaScript values are records tagged with their type t; the payload is  *)
(* under a field of the type's own (b, n, s, o, a): an object's payload o  *)
(* is a function from its keys, an array's payload a is a sequence.        *)
(* A parse result is [ok, v, issues].                                      *)
(***************************************************************************)
EXTENDS Integers, Sequences, FiniteSets, TLC

VARIABLES raw, plugins, presets, idx, pc, result

vars == <<raw, plugins, presets, idx, pc, result>>

(***************************************************************************)
(* Values                                                                  *)
(***************************************************************************)
Undef == [t |-> "undefined"]
Null == [t |-> "null"]
B(b) == [t |-> "bool", b |-> b]
N(n) == [t |-> "num", n |-> n]
S(s) == [t |-> "str", s |-> s]
O(f) == [t |-> "obj", o |-> f]
A(q) == [t |-> "arr", a |-> q]
\* new Secret(value)
Secret(x) == [t |-> "secret", secret |-> x]
\* A reference to the array presets[name].plugins.processors of the tree
\* under resolution: deepMerge and Object.assign hand arrays on by reference.
Ref(name) == [t |-> "ref", ref |-> name]

NoKeys == <<>>
Get(f, k) == IF k \in DOMAIN f THEN f[k] ELSE Undef
Without(f, ks) == [k \in DOMAIN f \ ks |-> f[k]]
\* Object.assign({}, g, f) / { ...g, ...f }: f wins
Assign(g, f) == f @@ g
Nullish(x) == x.t \in {"undefined", "null"}
\* String(x), as is.coerce.string() applies it
CoerceString(x) ==
  CASE x.t = "str" -> x.s
    [] x.t = "undefined" -> "undefined"
    [] x.t = "null" -> "null"
    [] x.t = "bool" -> IF x.b THEN "true" ELSE "false"
    [] x.t = "arr" -> IF x.a = <<>> THEN "" ELSE "[object Array]"
    [] OTHER -> "[object Object]"

Ok(x) == [ok |-> TRUE, v |-> x, issues |-> {}]
Fail(is) == [ok |-> FALSE, v |-> Undef, issues |-> is]
Issue(code, key) == [code |-> code, key |-> key]

(***************************************************************************)
(* Constants of the schemas                                                *)
(***************************************************************************)
entities == {"user", "organization", "repository"}
\* Intl.supportedValuesOf("timeZone"), a sample; the host's zone is one of them
timezones == {"Europe/Paris", "America/New_York"}
HostTimezone == "Europe/Paris"
loglevel == "trace"
LogLevels == {"none", "error", "warn", "info", "message", "debug", "trace"}
DefaultApi == "https://api.github.com"
\* strings is.string().url() accepts, a sample
Urls == {DefaultApi, "https://example.com/t.svg"}
\* env.get("METRICS_GITHUB_TOKEN"): not set
EnvToken == Undef
PluginAttempts == 3
ProcessorAttempts == 1
DefaultDelay == 120

(***************************************************************************)
(* merge and sugar                                                         *)
(***************************************************************************)
RECURSIVE deepMerge(_, _)
\* std deepMerge(record, other, { arrays: "replace" }) on the key maps of two
\* objects: plain objects merge key by key, anything else is replaced by other's
deepMerge(record, other) ==
  [k \in DOMAIN record \cup DOMAIN other |->
    IF k \notin DOMAIN other THEN record[k]
    ELSE IF k \in DOMAIN record /\ record[k].t = "obj" /\ other[k].t = "obj"
         THEN O(deepMerge(record[k].o, other[k].o))
         ELSE other[k]]

RECURSIVE mergeFrom(_, _, _)
mergeFrom(acc, objects, n) ==
  IF n > Len(objects) THEN acc
  ELSE mergeFrom(deepMerge(acc, IF Nullish(objects[n]) THEN NoKeys ELSE objects[n].o),
                 objects, n + 1)

\* a merge that folds its arguments in the opposite order: the first one wins
mergeLowestWins(objects) ==
  mergeFrom(NoKeys, [n \in 1..Len(objects) |-> objects[Len(objects) + 1 - n]], 1)

\* merge(...objects): the key map of the merged object
merge(objects) == mergeFrom(NoKeys, objects, 1)

\* (record.args) && (typeof record.args === "object") && (Object.keys(record.args).length)
NonEmptyArgs(record) ==
  /\ "args" \in DOMAIN record
  /\ record["args"].t \in {"obj", "arr"}
  /\ IF record["args"].t = "obj" THEN DOMAIN record["args"].o # {}
     ELSE Len(record["args"].a) > 0

\* typeof value === "object" of a value that is not null
isObject(value) == value.t \in {"obj", "arr"}

\* { ...value }: the own keys of an object, the indices of an array
spread(value) ==
  IF value.t = "obj" THEN value.o
  ELSE [k \in {ToString(i - 1) : i \in 1..Len(value.a)} |->
          value.a[CHOOSE i \in 1..Len(value.a) : ToString(i - 1) = k]]

\* a sugar that forgets delete record[id]
sugarKeepsKey(value, keys) ==
  IF ~isObject(value) \/ "id" \in DOMAIN spread(value) THEN value
  ELSE IF NonEmptyArgs(spread(value)) THEN value
  ELSE LET record == spread(value)
           extra == DOMAIN record \ keys
       IN IF Cardinality(extra) > 1
          THEN O(Assign([id |-> S("")], record))
          ELSE LET id == IF extra = {} THEN Undef ELSE S(CHOOSE k \in extra : TRUE)
                   args == IF extra = {} THEN Undef
                           ELSE record[CHOOSE k \in extra : TRUE]
               IN O(Assign(record, [id |-> id, args |-> args]))

sugar(value, keys) ==
  IF ~isObject(value) \/ "id" \in DOMAIN spread(value) THEN value
  ELSE IF NonEmptyArgs(spread(value)) THEN value
  ELSE LET record == spread(value)
           extra == DOMAIN record \ keys
       IN IF Cardinality(extra) > 1
          THEN O(Assign([id |-> S("")], record))
          ELSE LET id == IF extra = {} THEN Undef ELSE S(CHOOSE k \in extra : TRUE)
                   args == IF extra = {} THEN Undef
                           ELSE record[CHOOSE k \in extra : TRUE]
               IN O(Assign(Without(record, extra), [id |-> id, args |-> args]))

(***************************************************************************)
(* Schema combinators (the validation library's parse of one schema)       *)
(***************************************************************************)
Invalid == Fail({Issue("invalid_type", "")})

\* is.object(shape) in mode "strip" (the default), "strict" or "passthrough":
\* Field(k, y) is the parse of y by the schema of key k
ZObject(x, shape, Field(_, _), mode) ==
  IF x.t # "obj" THEN Invalid
  ELSE LET r == [k \in shape |-> Field(k, Get(x.o, k))]
           extra == DOMAIN x.o \ shape
           nested == UNION {{IF i.key = "" THEN Issue(i.code, k) ELSE i : i \in r[k].issues} :
                            k \in shape}
           unknown == IF mode = "strict"
                      THEN {Issue("unrecognized_keys", k) : k \in extra}
                      ELSE {}
           out == {k \in shape : k \in DOMAIN x.o \/ r[k].v # Undef}
                    \cup (IF mode = "passthrough" THEN extra ELSE {})
       IN IF nested \cup unknown # {} THEN Fail(nested \cup unknown)
          ELSE Ok(O([k \in out |-> IF k \in shape THEN r[k].v ELSE x.o[k]]))

\* is.array(element)
ZArray(x, Element(_)) ==
  IF x.t # "arr" THEN Invalid
  ELSE LET r == [n \in 1..Len(x.a) |-> Element(x.a[n])]
       IN IF \E n \in 1..Len(x.a) : ~r[n].ok
          THEN Fail(UNION {r[n].issues : n \in 1..Len(x.a)})
          ELSE Ok(A([n \in 1..Len(x.a) |-> r[n].v]))

\* is.record(is.string(), element)
ZRecord(x, Element(_)) ==
  IF x.t # "obj" THEN Invalid
  ELSE LET r == [k \in DOMAIN x.o |-> Element(x.o[k])]
       IN IF \E k \in DOMAIN x.o : ~r[k].ok
          THEN Fail(UNION {r[k].issues : k \in DOMAIN x.o})
          ELSE Ok(O([k \in DOMAIN x.o |-> r[k].v]))

\* schema.default(d), schema.optional()
ZDefault(x, d, Inner(_)) == Inner(IF x = Undef THEN d ELSE x)
ZOptional(x, Inner(_)) == IF x = Undef THEN Ok(Undef) ELSE Inner(x)

zUnknown(x) == Ok(x)
zBoolean(x) == IF x.t = "bool" THEN Ok(x) ELSE Invalid
zString(x) == IF x.t = "str" THEN Ok(x) ELSE Invalid
zStringMin1(x) == IF x.t = "str" /\ x.s # "" THEN Ok(x) ELSE Invalid
zRecordUnknown(x) == ZRecord(x, zUnknown)

(***************************************************************************)
(* Primitive and component schemas                                         *)
(***************************************************************************)
\* secret: wraps anything that is not a Secret already
secret(x) == Ok(IF x.t = "secret" THEN x ELSE Secret(x))
logs(x) == IF x.t = "str" /\ x.s \in LogLevels THEN Ok(x) ELSE Invalid
attempts(x) == IF x.t = "num" /\ x.n > 0 THEN Ok(x) ELSE Invalid
delay(x) == IF x.t = "num" /\ x.n >= 0 THEN Ok(x) ELSE Invalid
api(x) == IF x.t = "str" /\ x.s \in Urls THEN Ok(x) ELSE Invalid
timezone(x) == IF x.t = "str" /\ x.s # "" /\ x.s \in timezones THEN Ok(x) ELSE Invalid
entity(x) == IF x.t = "str" /\ x.s \in entities THEN Ok(x) ELSE Invalid
\* is.coerce.string().min(1).nullable()
handle(x) ==
  IF x.t = "null" THEN Ok(x)
  ELSE IF CoerceString(x) # "" THEN Ok(S(CoerceString(x))) ELSE Invalid
\* is.union([is.literal(null), is.coerce.string().url(), is.coerce.string().min(1)])
template(x) ==
  IF x.t = "null" THEN Ok(x)
  ELSE IF CoerceString(x) \in Urls \/ CoerceString(x) # "" THEN Ok(S(CoerceString(x)))
  ELSE Invalid

retries(x) ==
  ZObject(x, {"attempts", "delay"},
          LAMBDA k, y : IF k = "attempts" THEN attempts(y) ELSE delay(y), "strip")

\* component.merge(requests).extend({handle, entity, template}), key by key
_plugin_without_processors(k, y) ==
  CASE k = "logs" -> logs(y)
    [] k = "id" -> zStringMin1(y)
    [] k = "args" -> zRecordUnknown(y)
    [] k = "retries" -> retries(y)
    [] k = "fatal" -> zBoolean(y)
    [] k = "mock" -> zBoolean(y)
    [] k = "api" -> api(y)
    [] k = "token" -> secret(y)
    [] k = "timezone" -> timezone(y)
    [] k = "handle" -> handle(y)
    [] k = "entity" -> entity(y)
    [] k = "template" -> template(y)

ComponentKeys == {"logs", "id", "args", "retries", "fatal"}
PluginShapeKeys ==
  ComponentKeys \cup {"mock", "api", "token", "timezone", "handle", "entity", "template",
                      "processors"}

\* the retries object of a preset shape: both numbers default
presetRetries(x, n) ==
  ZDefault(x, O(NoKeys),
           LAMBDA z : ZObject(z, {"attempts", "delay"},
                              LAMBDA k, y : IF k = "attempts"
                                            THEN ZDefault(y, N(n), attempts)
                                            ELSE ZDefault(y, N(DefaultDelay), delay),
                              "strip"))

_processor_keys == {"args", "logs", "fatal", "retries"}

_preset_processor(x, mode) ==
  ZObject(x, _processor_keys,
          LAMBDA k, y : CASE k = "args" -> ZDefault(y, O(NoKeys), zRecordUnknown)
                          [] k = "logs" -> ZDefault(y, S(loglevel), logs)
                          [] k = "fatal" -> ZDefault(y, B(FALSE), zBoolean)
                          [] k = "retries" -> presetRetries(y, ProcessorAttempts),
          mode)

_processor_without_parent(x, mode) ==
  ZObject(x, ComponentKeys, _plugin_without_processors, mode)

\* _processor_without_parent.deepPartial()
_processor_deepPartial(x) ==
  ZObject(x, ComponentKeys,
          LAMBDA k, y : IF k = "retries"
                        THEN ZOptional(y, LAMBDA z : ZObject(z, {"attempts", "delay"},
                                 LAMBDA j, w : IF j = "attempts" THEN ZOptional(w, attempts)
                                               ELSE ZOptional(w, delay), "strip"))
                        ELSE ZOptional(y, LAMBDA z : _plugin_without_processors(k, z)),
          "strip")

processor(x) ==
  LET pre == _preset_processor(sugar(x, _processor_keys), "passthrough")
  IN IF ~pre.ok THEN pre ELSE _processor_without_parent(pre.v, "strict")

_plugin(x) ==
  ZObject(x, PluginShapeKeys,
          LAMBDA k, y : IF k = "processors" THEN ZArray(y, processor)
                        ELSE _plugin_without_processors(k, y),
          "strip")

_plugin_nop_removed_keys == {"id", "args", "retries", "template"}

\* a no-op schema that strips unknown keys instead of rejecting them
_plugin_nop_strip(x) ==
  LET r == ZObject(x, PluginShapeKeys \ _plugin_nop_removed_keys,
                   LAMBDA k, y : IF k = "processors" THEN ZArray(y, processor)
                                 ELSE _plugin_without_processors(k, y),
                   "strip")
  IN IF r.ok THEN Ok(O(Assign(r.v.o, [template |-> Null]))) ELSE r

_plugin_nop(x) ==
  LET r == ZObject(x, PluginShapeKeys \ _plugin_nop_removed_keys,
                   LAMBDA k, y : IF k = "processors" THEN ZArray(y, processor)
                                 ELSE _plugin_without_processors(k, y),
                   "strict")
  IN IF r.ok THEN Ok(O(Assign(r.v.o, [template |-> Null]))) ELSE r

_plugin_keys ==
  {"args", "logs", "api", "token", "handle", "entity", "template", "timezone", "mock",
   "processors", "fatal", "retries"}

\* _preset_plugin.extend(more): more is the set of the keys id, preset added
presetPluginField(k, y) ==
  CASE k = "args" -> ZDefault(y, O(NoKeys), zRecordUnknown)
    [] k = "logs" -> ZDefault(y, S(loglevel), logs)
    [] k = "api" -> ZDefault(y, S(DefaultApi), api)
    [] k = "token" -> ZDefault(y, EnvToken, secret)
    [] k = "handle" -> ZDefault(y, Null, handle)
    [] k = "entity" -> ZDefault(y, S("user"), entity)
    [] k = "template" -> ZDefault(y, S("classic"), template)
    [] k = "timezone" -> ZDefault(y, S(HostTimezone), timezone)
    [] k = "mock" -> ZDefault(y, B(FALSE), zBoolean)
    [] k = "processors" -> ZDefault(y, A(<<>>), LAMBDA z : ZArray(z, _processor_deepPartial))
    [] k = "fatal" -> ZDefault(y, B(FALSE), zBoolean)
    [] k = "retries" -> presetRetries(y, PluginAttempts)
    [] k = "id" -> zStringMin1(y)
    [] k = "preset" -> ZOptional(y, zString)

_preset_plugin(x, more, mode) == ZObject(x, _plugin_keys \cup more, presetPluginField, mode)

plugin(x) ==
  LET r == _preset_plugin(sugar(x, _plugin_keys), {"id", "preset"}, "strict")
  IN _plugin(IF ~r.ok THEN x ELSE O(Without(r.v.o, {"preset"})))

plugin_nop(x) ==
  LET r == _preset_plugin(x, {"preset"}, "strict")
  IN _plugin_nop(IF ~r.ok THEN x ELSE O(Without(r.v.o, _plugin_nop_removed_keys)))

preset(x) ==
  ZObject(x, {"plugins", "processors"},
          LAMBDA k, y : IF k = "plugins"
                        THEN ZDefault(y, _preset_plugin(O(NoKeys), {}, "strip").v,
                                      LAMBDA z : _preset_plugin(z, {}, "strip"))
                        ELSE ZDefault(y, _preset_processor(O(NoKeys), "strip").v,
                                      LAMBDA z : _preset_processor(z, "strip")),
          "strip")

\* is.union([plugin, plugin_nop])
pluginUnion(x) ==
  LET first == plugin(x)
      second == plugin_nop(x)
  IN IF first.ok THEN first
     ELSE IF second.ok THEN second
     ELSE Fail({Issue("invalid_union", "plugins")} \cup first.issues \cup second.issues)

_config(x) ==
  ZObject(x, {"plugins", "presets"},
          LAMBDA k, y : IF k = "plugins" THEN ZArray(y, pluginUnion)
                        ELSE ZRecord(y, preset),
          "strip")

(***************************************************************************)
(* config: the loose pre-pass, the default bundle, the cascade loop        *)
(***************************************************************************)
loosePlugin(x) ==
  ZObject(x, {"preset", "processors"},
          LAMBDA k, y : IF k = "preset" THEN ZOptional(y, zString)
                        ELSE ZOptional(y, LAMBDA z : ZArray(z,
                               LAMBDA e : ZObject(e, {"preset"},
                                                  LAMBDA j, w : ZOptional(w, zString),
                                                  "passthrough"))),
          "passthrough")

\* the first parse of the preprocess: only the preset references are typed;
\* the values under presets[name] are is.unknown() and come out as the same objects
loose(x) ==
  ZObject(x, {"plugins", "presets"},
          LAMBDA k, y : IF k = "plugins"
                        THEN ZDefault(y, A(<<>>), LAMBDA z : ZArray(z, loosePlugin))
                        ELSE ZDefault(y, O(NoKeys), LAMBDA z : ZRecord(z, zRecordUnknown)),
          "passthrough")

\* if (!value.presets.default) value.presets.default = preset.parse({})
withDefault(ps) ==
  IF "default" \in DOMAIN ps THEN ps ELSE ("default" :> preset(O(NoKeys)).v) @@ ps

\* the property key plugin.preset! selects: an absent preset reads the key "undefined"
presetName(f) ==
  IF "preset" \in DOMAIN f /\ f["preset"].t = "str" THEN f["preset"].s ELSE "undefined"

\* value.presets[name]?.plugins and value.presets[name]?.processors
layer(ps, name, part) == IF name \in DOMAIN ps THEN Get(ps[name].o, part) ELSE Undef

\* the plugins bundle as merge reads it: its processors array is the array of the tree
byRef(x, name) ==
  IF x.t = "obj" /\ "processors" \in DOMAIN x.o /\ x.o["processors"].t = "arr"
  THEN O(Assign(x.o, [processors |-> Ref(name)]))
  ELSE x

\* the array a processors value denotes
deref(ps, x) == IF x.t = "ref" THEN ps[x.ref].o["plugins"].o["processors"] ELSE x

\* a merge of the plugin layers that leaves the named preset's layer out
assignPluginSkipsPreset(ps, f) ==
  LET merged == merge(<<byRef(layer(ps, "default", "plugins"), "default"), O(f)>>)
  IN IF Nullish(Get(merged, "processors"))
     THEN Assign(merged, [processors |-> A(<<>>)])
     ELSE merged

\* Object.assign(plugin, merge(default.plugins, presets[plugin.preset]?.plugins, plugin))
\* and plugin.processors ??= []
assignPlugin(ps, f) ==
  LET merged == merge(<<byRef(layer(ps, "default", "plugins"), "default"),
                        byRef(layer(ps, presetName(f), "plugins"), presetName(f)),
                        O(f)>>)
  IN IF Nullish(Get(merged, "processors"))
     THEN Assign(merged, [processors |-> A(<<>>)])
     ELSE merged

\* Object.assign(processor, merge(default.processors, presets[plugin.preset]?.processors,
\*                                presets[processor.preset]?.processors, processor))
assignProcessor(ps, f, e) ==
  IF e.t # "obj" THEN e
  ELSE O(merge(<<layer(ps, "default", "processors"),
                 layer(ps, presetName(f), "processors"),
                 layer(ps, presetName(e.o), "processors"),
                 e>>))

\* one iteration of for (const plugin of value.plugins): the plugin record and the
\* tree of presets after it (the processors it walks may be a preset's own array)
loopBody(pl, ps, n) ==
  LET f == assignPlugin(ps, pl[n].o)
      target == f["processors"]
      list == deref(ps, target).a
      walked == [m \in 1..Len(list) |-> assignProcessor(ps, f, list[m])]
  IN IF target.t = "ref"
     THEN [plugins |-> [pl EXCEPT ![n] = O(f)],
           presets |-> [ps EXCEPT ![target.ref] =
                          O(Assign(ps[target.ref].o,
                                   [plugins |-> O(Assign(ps[target.ref].o["plugins"].o,
                                                         [processors |-> A(walked)]))]))]]
     ELSE [plugins |-> [pl EXCEPT ![n] = O(Assign(f, [processors |-> A(walked)]))],
           presets |-> ps]

RECURSIVE loopFrom(_, _, _)
loopFrom(pl, ps, n) ==
  IF n > Len(pl) THEN [plugins |-> pl, presets |-> ps]
  ELSE loopFrom(loopBody(pl, ps, n).plugins, loopBody(pl, ps, n).presets, n + 1)

\* the value the preprocess returns, as _config reads it at the end of the loop
returned(pl, ps) ==
  O([plugins |-> A([n \in 1..Len(pl) |->
                     O(Assign(pl[n].o, [processors |-> deref(ps, pl[n].o["processors"])]))]),
     presets |-> O(ps)])

\* config.safeParse(x)
config(x) ==
  LET first == loose(x)
      done == loopFrom(first.v.o["plugins"].a, withDefault(first.v.o["presets"].o), 1)
  IN IF ~first.ok THEN first ELSE _config(returned(done.plugins, done.presets))

(***************************************************************************)
(* webrequest: the restricted shape of a web request                       *)
(***************************************************************************)
\* the keys _plugin.pick keeps: preset is no key of _plugin and is not picked
WebPluginKeys == {"id", "timezone", "handle", "fatal", "entity", "template", "args"}

\* _processor.pick({ id, fatal, args }).partial().extend({ id: _plugin.shape.id })
webProcessor(x) ==
  ZObject(x, {"id", "fatal", "args"},
          LAMBDA k, y : IF k = "id" THEN zStringMin1(y)
                        ELSE ZOptional(y, LAMBDA z : _plugin_without_processors(k, z)),
          "strip")

\* a web plugin shape that lets unknown keys through
webPluginPassthrough(x) ==
  ZObject(x, WebPluginKeys \cup {"processors"},
          LAMBDA k, y : IF k = "processors"
                        THEN ZOptional(y, LAMBDA z : ZArray(z, webProcessor))
                        ELSE ZOptional(y, LAMBDA z : _plugin_without_processors(k, z)),
          "passthrough")

\* _plugin.pick({...}).extend({ processors }).partial()
webPlugin(x) ==
  ZObject(x, WebPluginKeys \cup {"processors"},
          LAMBDA k, y : IF k = "processors"
                        THEN ZOptional(y, LAMBDA z : ZArray(z, webProcessor))
                        ELSE ZOptional(y, LAMBDA z : _plugin_without_processors(k, z)),
          "strip")

webrequest(x) ==
  ZObject(x, {"mock", "plugins"},
          LAMBDA k, y : IF k = "mock" THEN ZDefault(y, B(FALSE), zBoolean)
                        ELSE ZDefault(y, A(<<>>), LAMBDA z : ZArray(z, webPlugin)),
          "strip")

(***************************************************************************)
(* Documents                                                               *)
(***************************************************************************)
MaxPlugins == 2

Lists(entries) == UNION {[1..n -> entries] : n \in 0..MaxPlugins}
Doc(pl, ps) == O(IF ps = Undef THEN [plugins |-> A(pl)] ELSE [plugins |-> A(pl), presets |-> ps])
With(S1, S2) == {Assign(f, g) : f \in S1, g \in S2}

\* plugin entries with an id: what they declare, and their preset reference
CascadeEntries ==
  With({[id |-> S("x")],
        [id |-> S("x"), fatal |-> B(FALSE), retries |-> O([attempts |-> N(5)]),
         args |-> O([a |-> S("1")])],
        [id |-> S("y"), fatal |-> B(TRUE), logs |-> S("debug"),
         retries |-> O([delay |-> N(0)])]},
       {NoKeys, [preset |-> S("ci")], [preset |-> S("nope")]})

CascadePresets ==
  {Undef,
   O([ci |-> O([plugins |-> O([fatal |-> B(TRUE), retries |-> O([delay |-> N(10)]),
                               args |-> O([b |-> S("2")])])])]),
   O([default |-> O([plugins |-> O([fatal |-> B(TRUE), logs |-> S("info"),
                                    args |-> O([a |-> S("0"), c |-> S("3")])])]),
      ci |-> O([plugins |-> O([logs |-> S("warn"), retries |-> O([attempts |-> N(7)])])])])}

\* processor entries: canonical, with a preset reference, in sugar form
ProcessorLists ==
  {<<>>,
   <<O([id |-> S("q"), preset |-> S("qa"), fatal |-> B(TRUE), args |-> O([a |-> S("1")])]),
     O([id |-> S("p")])>>,
   <<O([k |-> O([a |-> S("1")])])>>}

ProcessorsEntries ==
  With({[id |-> S("x")]} \cup {[id |-> S("x"), processors |-> A(q)] : q \in ProcessorLists},
       {NoKeys, [preset |-> S("ci")], [preset |-> S("qa")]})

ProcessorsPresets ==
  {Undef,
   O([default |-> O([plugins |-> O([processors |-> A(<<O([id |-> S("d")])>>)])]),
      ci |-> O([processors |-> O([fatal |-> B(TRUE), args |-> O([b |-> S("2")])])]),
      qa |-> O([processors |-> O([fatal |-> B(FALSE), logs |-> S("debug"),
                                  retries |-> O([attempts |-> N(4)])])])]),
   O([ci |-> O([plugins |-> O([processors |-> A(<<O([id |-> S("c"), preset |-> S("qa")])>>)]),
                processors |-> O([logs |-> S("warn")])]),
      qa |-> O([processors |-> O([logs |-> S("info"), fatal |-> B(TRUE)])])])}

\* entries with keys outside the shape, in sugar form, ambiguous, without identity
KeysEntries ==
  With({[id |-> S("x")],
        [id |-> S("x"), foo |-> N(1)],
        [foo |-> O([a |-> S("1")])],
        [foo |-> O(NoKeys), bar |-> O(NoKeys)],
        NoKeys,
        [fatal |-> B(TRUE), logs |-> S("debug")]},
       {NoKeys, [preset |-> S("nope")]})
  \cup {[id |-> S("x"), preset |-> N(7)], [id |-> S(""), fatal |-> B(TRUE)]}

KeysPresets ==
  {Undef, O([default |-> O([plugins |-> O([fatal |-> B(TRUE)])])])}

Docs ==
  {Doc([n \in DOMAIN pl |-> O(pl[n])], ps) : pl \in Lists(CascadeEntries), ps \in CascadePresets}
  \cup {Doc([n \in DOMAIN pl |-> O(pl[n])], ps) :
          pl \in Lists(ProcessorsEntries), ps \in ProcessorsPresets}
  \cup {Doc([n \in DOMAIN pl |-> O(pl[n])], ps) : pl \in Lists(KeysEntries), ps \in KeysPresets}

\* arguments of sugar: values that are no objects, arrays, objects with and without
\* id, args of every kind, recognized keys and keys outside the shapes
SugarValues ==
  {Undef, Null, S("x"), S(""), N(0), B(FALSE), A(<<>>), A(<<O([a |-> S("1")])>>),
   A(<<S("1"), S("2")>>)}
  \cup {O(f) : f \in
          With(With(With(With(With({NoKeys, [id |-> S("x")]},
                                   {NoKeys, [args |-> O(NoKeys)], [args |-> O([a |-> S("1")])],
                                    [args |-> A(<<>>)], [args |-> A(<<S("1")>>)],
                                    [args |-> S("s")], [args |-> Null]}),
                              {NoKeys, [fatal |-> B(TRUE)]}),
                         {NoKeys, [foo |-> O([a |-> S("1")])], [foo |-> N(1)]}),
                    {NoKeys, [bar |-> O(NoKeys)]}),
               {NoKeys, [processors |-> A(<<>>)]})}

\* plugin entries of a web request
WebEntries ==
  {[id |-> S("x")],
   [id |-> S("x"), token |-> S("t"), api |-> S(DefaultApi), mock |-> B(TRUE),
    retries |-> O([attempts |-> N(9)])],
   [id |-> S("x"), fatal |-> B(TRUE), args |-> O([token |-> S("t")])],
   [id |-> S("x"), handle |-> N(1), preset |-> S("ci"),
    processors |-> A(<<O([id |-> S("p"), fatal |-> B(TRUE), token |-> S("t"),
                          retries |-> O([attempts |-> N(9)])])>>)],
   [id |-> S("x"), processors |-> A(<<O([fatal |-> B(TRUE)])>>)],
   [id |-> S("")],
   [entity |-> S("user"), mock |-> S("yes")]}

WebPayloads ==
  {Undef, S("x")}
  \cup {O(f) : f \in
          With(With({NoKeys, [mock |-> B(TRUE)], [mock |-> S("yes")]},
                    {NoKeys, [token |-> S("t"), retries |-> O([attempts |-> N(9)])]}),
               {NoKeys} \cup {[plugins |-> A([n \in DOMAIN pl |-> O(pl[n])])] :
                                pl \in Lists(WebEntries)})}

(***************************************************************************)
(* Resolution of one document, step by step                                *)
(***************************************************************************)
Init ==
  /\ raw \in Docs
  /\ plugins = <<>>
  /\ presets = NoKeys
  /\ idx = 0
  /\ pc = "parse"
  /\ result = Undef

\* the loose parse and the default bundle
Prepass ==
  /\ pc = "parse"
  /\ LET first == loose(raw)
     IN IF first.ok
        THEN /\ plugins' = first.v.o["plugins"].a
             /\ presets' = withDefault(first.v.o["presets"].o)
             /\ idx' = 1
             /\ pc' = "merge"
             /\ UNCHANGED <<raw, result>>
        ELSE /\ result' = first
             /\ pc' = "done"
             /\ UNCHANGED <<raw, plugins, presets, idx>>

\* one iteration of the loop over value.plugins
MergePlugin ==
  /\ pc = "merge"
  /\ idx <= Len(plugins)
  /\ plugins' = loopBody(plugins, presets, idx).plugins
  /\ presets' = loopBody(plugins, presets, idx).presets
  /\ idx' = idx + 1
  /\ UNCHANGED <<raw, pc, result>>

\* the preprocess returns and _config parses its value
Validate ==
  /\ pc = "merge"
  /\ idx > Len(plugins)
  /\ result' = _config(returned(plugins, presets))
  /\ pc' = "done"
  /\ UNCHANGED <<raw, plugins, presets, idx>>

Next == Prepass \/ MergePlugin \/ Validate

Spec == Init /\ [][Next]_vars

(***************************************************************************)
(* sugar, called on one value from either of its two call sites            *)
(***************************************************************************)
InitSugar ==
  /\ raw \in SugarValues
  /\ plugins = <<>>
  /\ presets = NoKeys
  /\ idx = 0
  /\ pc = "sugar"
  /\ result = Undef

\* sugar(value, _plugin_keys), the call of plugin
SugarPlugin ==
  /\ pc = "sugar"
  /\ result' = sugar(raw, _plugin_keys)
  /\ pc' = "sugared_plugin"
  /\ UNCHANGED <<raw, plugins, presets, idx>>

\* sugar(value, _processor_keys), the call of processor
SugarProcessor ==
  /\ pc = "sugar"
  /\ result' = sugar(raw, _processor_keys)
  /\ pc' = "sugared_processor"
  /\ UNCHANGED <<raw, plugins, presets, idx>>

NextSugar == SugarPlugin \/ SugarProcessor

SpecSugar == InitSugar /\ [][NextSugar]_vars

(***************************************************************************)
(* webrequest, parsing one payload                                         *)
(***************************************************************************)
InitWeb ==
  /\ raw \in WebPayloads
  /\ plugins = <<>>
  /\ presets = NoKeys
  /\ idx = 0
  /\ pc = "web"
  /\ result = Undef

\* webrequest.safeParse(payload)
Webrequest ==
  /\ pc = "web"
  /\ result' = webrequest(raw)
  /\ pc' = "web_done"
  /\ UNCHANGED <<raw, plugins, presets, idx>>

NextWeb == Webrequest

SpecWeb == InitWeb /\ [][NextWeb]_vars

(***************************************************************************)
(* What the document declares, read from the input as written              *)
(***************************************************************************)
RECURSIVE At(_, _)
\* the value under a path of keys, Undef where the path leaves the value
At(x, path) ==
  IF path = <<>> THEN x
  ELSE IF x.t = "obj" /\ Head(path) \in DOMAIN x.o THEN At(x.o[Head(path)], Tail(path))
  ELSE Undef

RECURSIVE FirstDefined(_)
FirstDefined(xs) ==
  IF xs = <<>> THEN Undef
  ELSE IF Head(xs) # Undef THEN Head(xs) ELSE FirstDefined(Tail(xs))

Done == pc = "done"
Resolved == pc = "done" /\ result.ok
rawPlugins == raw.o["plugins"].a
rawPresets == IF "presets" \in DOMAIN raw.o THEN raw.o["presets"].o ELSE NoKeys
resolvedPlugin(n) == result.v.o["plugins"].a[n]
declaresId(e) == "id" \in DOMAIN e.o /\ e.o["id"].t = "str" /\ e.o["id"].s # ""
\* the bundle part a preset reference names, Undef when it names none
named(e, part) ==
  IF "preset" \in DOMAIN e.o /\ e.o["preset"].t = "str" /\ e.o["preset"].s \in DOMAIN rawPresets
  THEN Get(rawPresets[e.o["preset"].s].o, part)
  ELSE Undef
default(part) ==
  IF "default" \in DOMAIN rawPresets THEN Get(rawPresets["default"].o, part) ELSE Undef

ArgKeys == {"a", "b", "c"}
Leaves == {<<"fatal">>, <<"logs">>, <<"retries", "attempts">>, <<"retries", "delay">>}
            \cup {<<"args", k>> : k \in ArgKeys}
builtin(path, n) ==
  CASE path = <<"fatal">> -> B(FALSE)
    [] path = <<"logs">> -> S(loglevel)
    [] path = <<"retries", "attempts">> -> N(n)
    [] path = <<"retries", "delay">> -> N(DefaultDelay)
    [] path = <<"retries">> -> O([attempts |-> N(n), delay |-> N(DefaultDelay)])
    [] path = <<"args">> -> O(NoKeys)
    [] OTHER -> Undef

\* explicit beats the named preset beats the default bundle beats the built-in default
pluginCascade(e, path) ==
  FirstDefined(<<At(e, path), At(named(e, "plugins"), path), At(default("plugins"), path),
                 builtin(path, PluginAttempts)>>)

elements(l) == IF l.t = "arr" THEN {l.a[m] : m \in 1..Len(l.a)} ELSE {}
\* the ids of the processors lists the preset layers of an entry define
presetListIds(e) ==
  {At(x, <<"id">>) : x \in elements(At(named(e, "plugins"), <<"processors">>))
                            \cup elements(At(default("plugins"), <<"processors">>))}

\* C2: a plugin that declares a processors list, under a preset layer that defines
\* one too, resolves to exactly the declared entries, in number and order, and to
\* none of the preset's; the empty list included.
C2_ArrayReplace ==
  Resolved =>
    \A n \in 1..Len(rawPlugins) :
      (/\ declaresId(rawPlugins[n])
       /\ "processors" \in DOMAIN rawPlugins[n].o
       /\ presetListIds(rawPlugins[n]) # {}) =>
        LET declared == rawPlugins[n].o["processors"].a
            got == resolvedPlugin(n).o["processors"].a
        IN /\ Len(got) = Len(declared)
           /\ \A m \in 1..Len(declared) :
                /\ "id" \in DOMAIN declared[m].o => At(got[m], <<"id">>) = declared[m].o["id"]
                /\ At(got[m], <<"id">>) \notin presetListIds(rawPlugins[n])

\* one document resolved with a declared empty list and a declared list of two,
\* both under a preset list
C2_Witness ==
  /\ Resolved
  /\ \E n, m \in 1..Len(rawPlugins) :
       /\ presetListIds(rawPlugins[n]) # {} /\ presetListIds(rawPlugins[m]) # {}
       /\ At(rawPlugins[n], <<"processors">>) = A(<<>>)
       /\ At(rawPlugins[m], <<"processors">>).t = "arr"
       /\ Len(At(rawPlugins[m], <<"processors">>).a) = 2
       /\ Len(resolvedPlugin(m).o["processors"].a) = 2

(***************************************************************************)
(* C3                                                                      *)
(***************************************************************************)
Sugared == pc \in {"sugared_plugin", "sugared_processor"}
\* the recognized keys of the call that was made
sugaredKeys == IF pc = "sugared_plugin" THEN _plugin_keys ELSE _processor_keys
\* the keys of the argument, none for a value that is no object
ownKeys(x) == IF isObject(x) THEN DOMAIN spread(x) ELSE {}
hasArgs(x) == isObject(x) /\ NonEmptyArgs(spread(x))

\* C3: sugar returns unchanged a value that is no object, or has an id key, or has
\* a non-empty args object; of any other object with exactly one key k outside the
\* recognized keys it returns a record with id = k, args = the value under k, k
\* itself absent, and the other keys (id and args apart) kept with their values.
C3_SugarSingleKey ==
  Sugared =>
    /\ (~isObject(raw) \/ "id" \in ownKeys(raw) \/ hasArgs(raw)) => result = raw
    /\ (isObject(raw) /\ "id" \notin ownKeys(raw) /\ ~hasArgs(raw)
          /\ Cardinality(ownKeys(raw) \ sugaredKeys) = 1) =>
         LET k == CHOOSE j \in ownKeys(raw) \ sugaredKeys : TRUE
         IN /\ result.t = "obj"
            /\ DOMAIN result.o = (ownKeys(raw) \ {k}) \cup {"id", "args"}
            /\ result.o["id"] = S(k)
            /\ result.o["args"] = spread(raw)[k]
            /\ \A j \in ownKeys(raw) \ {k, "args"} : result.o[j] = spread(raw)[j]

\* sugar has rewritten { foo: {a: "1"}, fatal: true } to id foo with the args of foo
C3_Witness ==
  /\ Sugared
  /\ raw = O([foo |-> O([a |-> S("1")]), fatal |-> B(TRUE)])
  /\ result = O([id |-> S("foo"), args |-> O([a |-> S("1")]), fatal |-> B(TRUE)])

(***************************************************************************)
(* C4                                                                      *)
(***************************************************************************)
ambiguous(e) ==
  /\ "id" \notin DOMAIN e.o
  /\ ~NonEmptyArgs(e.o)
  /\ Cardinality(DOMAIN e.o \ _plugin_keys) >= 2

C5_UnknownKeyRejected ==
  Done =>
    \A n \in 1..Len(rawPlugins) :
      declaresId(rawPlugins[n]) =>
        \A k \in DOMAIN rawPlugins[n].o \ (PluginShapeKeys \cup {"preset"}) :
          /\ ~result.ok
          /\ loose(raw).ok => Issue("unrecognized_keys", k) \in result.issues

(***************************************************************************)
(* C6                                                                      *)
(***************************************************************************)
\* the document with entry n's preset reference taken away
withoutPreset(n) ==
  O(Assign(raw.o, [plugins |-> A([rawPlugins EXCEPT ![n] = O(Without(@.o, {"preset"}))])]))

unresolvedPreset(e) ==
  /\ "preset" \in DOMAIN e.o
  /\ e.o["preset"].t = "str"
  /\ e.o["preset"].s \notin DOMAIN rawPresets \cup {"default"}

\* C6: adding a preset reference that names no bundle to a plugin entry (canonical,
\* sugar or no-op form) of a document that resolves leaves it resolving, to the same
\* plugin, which has no preset key.
C6_UnresolvedPresetIgnored ==
  Done =>
    \A n \in 1..Len(rawPlugins) :
      (unresolvedPreset(rawPlugins[n]) /\ config(withoutPreset(n)).ok) =>
        /\ result.ok
        /\ resolvedPlugin(n) = config(withoutPreset(n)).v.o["plugins"].a[n]
        /\ "preset" \notin DOMAIN resolvedPlugin(n).o

(***************************************************************************)
(* C7                                                                      *)
(***************************************************************************)
Restricted == {"token", "api", "retries", "mock"}
\* values a second payload may carry under a restricted key
Others == {S("o"), B(FALSE), N(2), O([attempts |-> N(2)])}

each(x, Op(_)) == IF x.t = "arr" THEN A([n \in 1..Len(x.a) |-> Op(x.a[n])]) ELSE x

onProcessor(q, u) ==
  IF q.t = "obj" THEN O([k \in DOMAIN q.o |-> IF k \in Restricted THEN u ELSE q.o[k]]) ELSE q

onPlugin(e, u) ==
  IF e.t = "obj"
  THEN O([k \in DOMAIN e.o |->
           IF k \in Restricted THEN u
           ELSE IF k = "processors" THEN each(e.o[k], LAMBDA q : onProcessor(q, u))
           ELSE e.o[k]])
  ELSE e

\* the payload with u under every restricted key of its plugin and processor entries
\* and under those of its own keys that are in own
onPayload(x, u, own) ==
  IF x.t = "obj"
  THEN O([k \in DOMAIN x.o |->
           IF k \in own THEN u
           ELSE IF k = "plugins" THEN each(x.o[k], LAMBDA e : onPlugin(e, u))
           ELSE x.o[k]])
  ELSE x

\* both rejected, or both accepted with the same result
sameOutcome(r1, r2) == r1.ok = r2.ok /\ (r1.ok => r1.v = r2.v)

\* C7 as stated: two payloads that differ only in the values under keys named
\* token, api, retries or mock (of the payload, of a plugin entry, of a processor
\* entry) are both rejected or validate to the same result.
C7_NoRestrictedInfluence ==
  pc = "web_done" =>
    \A u \in Others : sameOutcome(result, webrequest(onPayload(raw, u, Restricted)))

\* C7 amended: the validated payload has no token, api, retries or mock key on any
\* plugin or processor entry and no token, api or retries key of its own, and two
\* payloads that differ only in the values under those keys are both rejected or
\* validate to the same result; the payload's own mock flag is taken from the
\* payload.
C7_EntriesRestricted ==
  pc = "web_done" =>
    /\ \A u \in Others :
         sameOutcome(result, webrequest(onPayload(raw, u, Restricted \ {"mock"})))
    /\ result.ok =>
         /\ DOMAIN result.v.o = {"mock", "plugins"}
         /\ result.v.o["mock"] = IF "mock" \in DOMAIN raw.o THEN raw.o["mock"] ELSE B(FALSE)
         /\ \A e \in elements(result.v.o["plugins"]) :
              /\ DOMAIN e.o \cap Restricted = {}
              /\ \A q \in elements(At(e, <<"processors">>)) : DOMAIN q.o \cap Restricted = {}

\* a payload accepted with token, api, retries and mock on a plugin entry and token
\* and retries on a processor entry
C7_Witness ==
  /\ pc = "web_done"
  /\ result.ok
  /\ \E e \in elements(At(raw, <<"plugins">>)) : Restricted \subseteq DOMAIN e.o
  /\ \E e \in elements(At(raw, <<"plugins">>)) :
       \E q \in elements(At(e, <<"processors">>)) : {"token", "retries"} \subseteq DOMAIN q.o

(***************************************************************************)
(* C8                                                                      *)
(***************************************************************************)
\* the processors list a plugin entry runs: its own, else the named preset's, else
\* the default bundle's
effectiveList(e) ==
  FirstDefined(<<At(e, <<"processors">>), At(named(e, "plugins"), <<"processors">>),
                 At(default("plugins"), <<"processors">>), A(<<>>)>>).a

processorCascade(e, q, path) ==
  FirstDefined(<<At(q, path), At(named(q, "processors"), path),
                 At(named(e, "processors"), path), At(default("processors"), path),
                 builtin(path, ProcessorAttempts)>>)

\* C8: for every processor entry with an id under a plugin with an id, each
\* processor field (logs, fatal, retries.attempts, retries.delay, and args read key
\* by key) resolves to the value of the highest layer that defines it: the entry,
\* the processor's preset, the plugin's preset, the default bundle, the built-in
\* default; and the resolved processor has no preset key.
C8_ProcessorCascade ==
  Resolved =>
    \A n \in 1..Len(rawPlugins) :
      declaresId(rawPlugins[n]) =>
        LET list == effectiveList(rawPlugins[n])
            got == resolvedPlugin(n).o["processors"].a
        IN /\ Len(got) = Len(list)
           /\ \A m \in 1..Len(list) :
                declaresId(list[m]) =>
                  /\ "preset" \notin DOMAIN got[m].o
                  /\ \A path \in Leaves :
                       At(got[m], path) = processorCascade(rawPlugins[n], list[m], path)

(***************************************************************************)
(* C9                                                                      *)
(***************************************************************************)
sugarForm(q) ==
  /\ q.t = "obj"
  /\ "id" \notin DOMAIN q.o
  /\ ~NonEmptyArgs(q.o)
  /\ Cardinality(DOMAIN q.o \ _processor_keys) = 1
  /\ \A k \in DOMAIN q.o \ _processor_keys : q.o[k].t = "obj"

\* the entry written out: { id: k, args: v } and its other keys
canonical(q) ==
  LET k == CHOOSE j \in DOMAIN q.o \ _processor_keys : TRUE
  IN O(Assign(Without(q.o, {k}), [id |-> S(k), args |-> q.o[k]]))

\* the document with processor m of plugin n written out
withCanonical(n, m) ==
  O(Assign(raw.o,
      [plugins |-> A([rawPlugins EXCEPT ![n] =
          O(Assign(@.o, [processors |-> A([@.o["processors"].a EXCEPT ![m] = canonical(@)])]))])]))

\* C9: a processor entry in sugar form { k: v } under a plugin with a valid id
\* resolves, in a document that resolves with the entry written out, to a processor
\* with id k and args v.
C9_ProcessorSugar ==
  Done =>
    \A n \in 1..Len(rawPlugins) :
      (declaresId(rawPlugins[n]) /\ "processors" \in DOMAIN rawPlugins[n].o) =>
        \A m \in 1..Len(rawPlugins[n].o["processors"].a) :
          LET q == rawPlugins[n].o["processors"].a[m]
          IN (sugarForm(q) /\ config(withCanonical(n, m)).ok) =>
               /\ result.ok
               /\ At(resolvedPlugin(n).o["processors"].a[m], <<"id">>) = canonical(q).o["id"]
               /\ At(resolvedPlugin(n).o["processors"].a[m], <<"args">>) = canonical(q).o["args"]

(***************************************************************************)
(* C10                                                                     *)
(***************************************************************************)
\* the document with plugin n alone
alone(n) == O(Assign(raw.o, [plugins |-> A(<<rawPlugins[n]>>)]))

\* C10: in a document that resolves, the processors of each plugin are those the
\* plugin resolves to as the only plugin of the document.
C10_Isolation ==
  Resolved =>
    \A n \in 1..Len(rawPlugins) :
      /\ config(alone(n)).ok
      /\ resolvedPlugin(n).o["processors"]
           = config(alone(n)).v.o["plugins"].a[1].o["processors"]

====
